---------------------------- MODULE Spec2Model ----------------------------
(***************************************************************************)
(* A model of alfanous.Support.whoosh.filedb.structfile.StructFile:  a     *)
(* wrapper around an open file object that reads and writes fixed-width    *)
(* big-endian values, varints and length-prefixed strings at the handle's  *)
(* cursor, and reads them at absolute offsets through a mapped view that   *)
(* is either an mmap of the file or a "fakemap" built from seek and read.  *)
(*                                                                         *)
(* Representation of Python values:                                        *)
(*   - a byte is a number in 0..255, raw data is a sequence of bytes;      *)
(*   - a bytes object is [kind |-> "bytes", data |-> <<..>>], a str is     *)
(*     [kind |-> "str", data |-> <<code points>>];                         *)
(*   - a signed int is a TLA+ integer; an unsigned 32-bit value is the     *)
(*     record [hi |-> 0..65535, lo |-> 0..65535] of its two halves (TLC's  *)
(*     integers are 32-bit signed);                                        *)
(*   - a float is a record, see pack_float;                                *)
(*   - the outcome of a call is Ok(value) or Err(exception name).          *)
(***************************************************************************)
EXTENDS Integers, Sequences, FiniteSets, TLC

\* ------------------------------------------------------------------------
\* Bounds of the exploration
\* ------------------------------------------------------------------------
\* longest file the writes may produce
MaxLen == 4
\* number of values the end-to-end scenario writes
MaxWrites == 4

\* ------------------------------------------------------------------------
\* Outcomes and Python values
\* ------------------------------------------------------------------------
Ok(v) == [ok |-> TRUE, val |-> v]

Err(e) == [ok |-> FALSE, err |-> e]

None == [kind |-> "None"]

Bytes(d) == [kind |-> "bytes", data |-> d]

Str(d) == [kind |-> "str", data |-> d]

Min(a, b) == IF a < b THEN a ELSE b

\* Python's data[start:stop] on a sequence (0-based, clamped to the data)
Slice(data, start, stop) ==
  IF start >= Len(data) \/ stop <= start THEN <<>>
  ELSE SubSeq(data, start + 1, Min(stop, Len(data)))

Zeros(n) == [k \in 1..n |-> 0]

\* ------------------------------------------------------------------------
\* struct: the "!"-prefixed (network order, standard size) formats
\* ------------------------------------------------------------------------
_INT_SIZE == 4

_USHORT_SIZE == 2

_ULONG_SIZE == 4

_FLOAT_SIZE == 4

U32(hi, lo) == [hi |-> hi, lo |-> lo]

Half(a, b) == a * 256 + b

\* Struct("!b").pack
pack_sbyte(n) ==
  IF n < -128 \/ n > 127 THEN Err("struct.error")
  ELSE Ok(<<IF n < 0 THEN n + 256 ELSE n>>)

\* Struct("!H").pack
pack_ushort(n) ==
  IF n < 0 \/ n > 65535 THEN Err("struct.error")
  ELSE Ok(<<n \div 256, n % 256>>)

\* Struct("!i").pack; n is within 32 bits by representation
pack_int(n) ==
  LET hi == n \div 65536
      lo == n % 65536
      uhi == IF hi < 0 THEN hi + 65536 ELSE hi
  IN  Ok(<<uhi \div 256, uhi % 256, lo \div 256, lo % 256>>)

\* Struct("!I").pack
pack_uint(u) == Ok(<<u.hi \div 256, u.hi % 256, u.lo \div 256, u.lo % 256>>)

\* Struct("!L").pack
pack_ulong(u) == Ok(<<u.hi \div 256, u.hi % 256, u.lo \div 256, u.lo % 256>>)

\* Struct("!b").unpack(data)[0]
unpack_sbyte(data) ==
  IF Len(data) # 1 THEN Err("struct.error")
  ELSE Ok(IF data[1] >= 128 THEN data[1] - 256 ELSE data[1])

\* Struct("!H").unpack(data)[0]
unpack_ushort(data) ==
  IF Len(data) # 2 THEN Err("struct.error")
  ELSE Ok(Half(data[1], data[2]))

\* Struct("!i").unpack(data)[0]
unpack_int(data) ==
  IF Len(data) # 4 THEN Err("struct.error")
  ELSE LET hi == Half(data[1], data[2])
           shi == IF hi >= 32768 THEN hi - 65536 ELSE hi
       IN  Ok(shi * 65536 + Half(data[3], data[4]))

\* Struct("!I").unpack(data)[0]
unpack_uint(data) ==
  IF Len(data) # 4 THEN Err("struct.error")
  ELSE Ok(U32(Half(data[1], data[2]), Half(data[3], data[4])))

\* Struct("!L").unpack(data)[0]
unpack_ulong(data) ==
  IF Len(data) # 4 THEN Err("struct.error")
  ELSE Ok(U32(Half(data[1], data[2]), Half(data[3], data[4])))

(***************************************************************************)
(* A Python float (IEEE double) is                                         *)
(*   [cls |-> "normal", sign, exp, hi, lo]: (-1)^sign * 2^exp * 1.f with   *)
(*        the 52-bit fraction f = hi * 2^29 + lo, hi the top 23 bits,      *)
(*   [cls |-> "zero" | "inf" | "nan", ...] for the special values, and     *)
(*   [cls |-> "sub32", sign, frac]: (-1)^sign * 2^-149 * frac, the values  *)
(*        a single-precision subnormal decodes to.                         *)
(* Struct("!f").pack rounds the fraction to 23 bits, ties to even, and     *)
(* raises OverflowError when the result does not fit single precision.     *)
(* Written values have exp >= -126, so the encoder never underflows.       *)
(***************************************************************************)
Dbl(sign, exp, hi, lo) ==
  [cls |-> "normal", sign |-> sign, exp |-> exp, hi |-> hi, lo |-> lo]

DblZero(sign) == [cls |-> "zero", sign |-> sign]

F32Bytes(sign, E, f) ==
  <<sign * 128 + E \div 2, (E % 2) * 128 + f \div 65536,
    (f \div 256) % 256, f % 256>>

pack_float(x) ==
  IF x.cls = "zero" THEN Ok(F32Bytes(x.sign, 0, 0))
  ELSE
    LET up == x.lo > 268435456 \/ (x.lo = 268435456 /\ x.hi % 2 = 1)
        f0 == IF up THEN x.hi + 1 ELSE x.hi
        carry == f0 = 8388608
        f == IF carry THEN 0 ELSE f0
        e == IF carry THEN x.exp + 1 ELSE x.exp
    IN  IF e > 127 THEN Err("OverflowError")
        ELSE Ok(F32Bytes(x.sign, e + 127, f))

\* Struct("!f").unpack(data)[0]
unpack_float(data) ==
  IF Len(data) # 4 THEN Err("struct.error")
  ELSE
    LET sign == data[1] \div 128
        E == (data[1] % 128) * 2 + data[2] \div 128
        f == (data[2] % 128) * 65536 + data[3] * 256 + data[4]
    IN  Ok(CASE E = 255 /\ f = 0 -> [cls |-> "inf", sign |-> sign]
             [] E = 255 /\ f # 0 -> [cls |-> "nan", sign |-> sign, frac |-> f]
             [] E = 0 /\ f = 0 -> DblZero(sign)
             [] E = 0 /\ f # 0 -> [cls |-> "sub32", sign |-> sign, frac |-> f]
             [] OTHER -> Dbl(sign, E - 127, f, 0))


\* ------------------------------------------------------------------------
\* util.varint / util.read_varint: 7 payload bits per byte, least
\* significant group first, top bit set on every byte but the last
\* ------------------------------------------------------------------------
RECURSIVE varint(_)
varint(i) ==
  IF i < 128 THEN <<i>> ELSE <<(i % 128) + 128>> \o varint(i \div 128)

\* str.encode("utf-8") on a sequence of code points below 65536
RECURSIVE utf8(_)
utf8(cps) ==
  IF cps = <<>> THEN <<>>
  ELSE LET c == Head(cps)
           enc == IF c < 128 THEN <<c>>
                  ELSE IF c < 2048 THEN <<192 + c \div 64, 128 + (c % 64)>>
                  ELSE <<224 + c \div 4096, 128 + ((c \div 64) % 64),
                         128 + (c % 64)>>
       IN  enc \o utf8(Tail(cps))

\* ------------------------------------------------------------------------
\* The wrapped file object.  A world w is the record
\*   [file, h, sf, hook, longsize] of the bytes on disk, the handle, the
\*   StructFile instance, the calls the close hook has received and the
\*   platform's native size of a C long, calcsize("L").
\* The handle h is [mode, hasClose, hasFlush, hasFileno, pos, closed];
\* mode "none" is an object without a mode attribute.
\* ------------------------------------------------------------------------
Readable(h) == h.mode \in {"rb", "r+b", "r", "none"}

Writable(h) == h.mode \in {"wb", "r+b", "none"}

Step(w, res) == [w |-> w, res |-> res]

\* fileobj.read(n), aliased as self.read
f_read(w, n) ==
  IF w.h.closed THEN Step(w, Err("ValueError"))
  ELSE IF ~Readable(w.h) THEN Step(w, Err("UnsupportedOperation"))
  ELSE LET data == Slice(w.file, w.h.pos, w.h.pos + n)
       IN  Step([w EXCEPT !.h.pos = @ + Len(data)], Ok(data))

\* the bytes on disk after writing data at offset pos
Overwrite(file, pos, data) ==
  IF data = <<>> THEN file
  ELSE IF pos >= Len(file) THEN file \o Zeros(pos - Len(file)) \o data
  ELSE SubSeq(file, 1, pos) \o data
       \o Slice(file, pos + Len(data), Len(file))

\* fileobj.write(obj), aliased as self.write
f_write(w, obj) ==
  IF w.h.closed THEN Step(w, Err("ValueError"))
  ELSE IF ~Writable(w.h) THEN Step(w, Err("UnsupportedOperation"))
  ELSE IF obj.kind # "bytes" THEN Step(w, Err("TypeError"))
  ELSE Step([w EXCEPT !.file = Overwrite(@, w.h.pos, obj.data),
                      !.h.pos = @ + Len(obj.data)],
            Ok(Len(obj.data)))

\* fileobj.seek(offset, whence), aliased as self.seek
f_seek(w, offset, whence) ==
  IF w.h.closed THEN Step(w, Err("ValueError"))
  ELSE LET target == IF whence = 0 THEN offset
                     ELSE IF whence = 1 THEN w.h.pos + offset
                     ELSE Len(w.file) + offset
       IN  IF target < 0 THEN Step(w, Err("OSError"))
           ELSE Step([w EXCEPT !.h.pos = target], Ok(target))

\* fileobj.tell(), aliased as self.tell
f_tell(w) ==
  IF w.h.closed THEN Step(w, Err("ValueError")) ELSE Step(w, Ok(w.h.pos))

\* util.read_varint(self.file.read): one byte per call of readfn
RECURSIVE read_varint_loop(_, _, _)
read_varint_loop(w, acc, weight) ==
  LET r == f_read(w, 1)
  IN  IF ~r.res.ok THEN r
      ELSE IF r.res.val = <<>> THEN Step(r.w, Err("TypeError"))
      ELSE LET b == r.res.val[1]
               i == acc + (b % 128) * weight
           IN  IF b >= 128 THEN read_varint_loop(r.w, i, weight * 128)
               ELSE Step(r.w, Ok(i))

\* ------------------------------------------------------------------------
\* StructFile
\* ------------------------------------------------------------------------
\* the instance before any construction
NoInstance ==
  [id |-> 0, map |-> "none", size |-> 0, onclose |-> FALSE,
   is_closed |-> FALSE]

\* __init__(fileobj, name, onclose, mapped); the name has no effect and is
\* left out.  mmapres is what mmap.mmap does when it is called: "ok" or
\* "OSError".  The handle w.h is already open.
StructFile_init(w, onclose, mapped, mmapres) ==
  LET base == [id |-> w.sf.id + 1, map |-> "none", size |-> 0,
               onclose |-> onclose, is_closed |-> FALSE]
      fake == [base EXCEPT !.map = "fake"]
      size == Len(w.file)
  IN  IF mapped /\ w.h.mode # "none" /\ w.h.mode \in {"rb", "r+b", "r"}
      THEN IF ~w.h.hasFileno
           THEN Step([w EXCEPT !.sf = [NoInstance EXCEPT !.id = base.id]],
                     Err("UnsupportedOperation"))
           ELSE IF size > 0 /\ mmapres = "ok"
           THEN Step([w EXCEPT !.sf = [base EXCEPT !.map = "real",
                                                   !.size = size]],
                     Ok(None))
           ELSE Step([w EXCEPT !.sf = [fake EXCEPT !.size = size]], Ok(None))
      ELSE Step([w EXCEPT !.sf = fake], Ok(None))

\* flush()
flush(w) ==
  IF w.h.hasFlush
  THEN IF w.h.closed THEN Step(w, Err("ValueError")) ELSE Step(w, Ok(None))
  ELSE Step(w, Ok(None))

\* close() that does not fail when the map is already gone: every call runs
\* the hook and the rest again
close_again(w) ==
  Step([w EXCEPT !.sf.map = "deleted",
                 !.hook = IF w.sf.onclose THEN Append(@, w.sf.id) ELSE @,
                 !.h.closed = IF w.h.hasClose THEN TRUE ELSE @,
                 !.sf.is_closed = TRUE],
       Ok(None))

\* close(): "del self.map" raises AttributeError once the map is gone
close(w) ==
  IF w.sf.map \notin {"real", "fake"} THEN Step(w, Err("AttributeError"))
  ELSE Step([w EXCEPT !.sf.map = "deleted",
                      !.hook = IF w.sf.onclose THEN Append(@, w.sf.id) ELSE @,
                      !.h.closed = IF w.h.hasClose THEN TRUE ELSE @,
                      !.sf.is_closed = TRUE],
            Ok(None))

\* fakemap.__getitem__ reading slice.stop bytes instead of stop - start
fakemap_getslice_stop(w, start, stop) ==
  LET s == f_seek(w, start, 0)
  IN  IF ~s.res.ok THEN s ELSE f_read(s.w, stop)

\* fakemap.__getitem__(slice) for a slice start:stop
fakemap_getslice(w, start, stop) ==
  LET s == f_seek(w, start, 0)
  IN  IF ~s.res.ok THEN s ELSE f_read(s.w, stop - start)

\* fakemap.__getitem__(slice) for an int
fakemap_getint(w, position) ==
  LET s == f_seek(w, position, 0)
  IN  IF ~s.res.ok THEN s ELSE f_read(s.w, 1)

\* self.map[start:stop]: the mmap covers the first w.sf.size bytes
map_getslice(w, start, stop) ==
  CASE w.sf.map = "real" ->
         Step(w, Ok(Slice(Slice(w.file, 0, w.sf.size), start, stop)))
    [] w.sf.map = "fake" -> fakemap_getslice(w, start, stop)
    [] OTHER -> Step(w, Err("AttributeError"))

\* self.map[position]: indexing an mmap gives an int, the fakemap bytes
map_getint(w, position) ==
  CASE w.sf.map = "real" ->
         IF position < Min(w.sf.size, Len(w.file))
         THEN Step(w, Ok([kind |-> "int", val |-> w.file[position + 1]]))
         ELSE Step(w, Err("IndexError"))
    [] w.sf.map = "fake" ->
         LET r == fakemap_getint(w, position)
         IN  IF r.res.ok THEN Step(r.w, Ok(Bytes(r.res.val))) ELSE r
    [] OTHER -> Step(w, Err("AttributeError"))


\* ord(x): a bytes object of length 1 gives its byte, anything else raises
ord(x) ==
  IF x.kind = "bytes" /\ Len(x.data) = 1 THEN Ok(x.data[1])
  ELSE Err("TypeError")

\* self.file.write(<packed>) of a pack_* outcome; the method returns None
WritePacked(w, p) ==
  IF ~p.ok THEN Step(w, p)
  ELSE LET r == f_write(w, Bytes(p.val))
       IN  IF r.res.ok THEN Step(r.w, Ok(None)) ELSE r

write_varint(w, i) == WritePacked(w, Ok(varint(i)))

read_varint(w) == read_varint_loop(w, 0, 1)

write_string(w, s) ==
  LET r == write_varint(w, Len(s.data))
  IN  IF ~r.res.ok THEN r
      ELSE LET r2 == f_write(r.w, s)
           IN  IF r2.res.ok THEN Step(r2.w, Ok(None)) ELSE r2

write_string2(w, s) ==
  LET b == IF s.kind = "str" THEN Bytes(utf8(s.data)) ELSE s
      p == pack_ushort(Len(b.data))
  IN  IF ~p.ok THEN Step(w, p)
      ELSE LET r == f_write(w, Bytes(p.val \o b.data))
           IN  IF r.res.ok THEN Step(r.w, Ok(None)) ELSE r

read_string(w) ==
  LET r == read_varint(w)
  IN  IF ~r.res.ok THEN r
      ELSE LET r2 == f_read(r.w, r.res.val)
           IN  IF r2.res.ok THEN Step(r2.w, Ok(Bytes(r2.res.val))) ELSE r2

read_ushort(w) ==
  LET r == f_read(w, _USHORT_SIZE)
  IN  IF ~r.res.ok THEN r ELSE Step(r.w, unpack_ushort(r.res.val))

read_string2(w) ==
  LET r == read_ushort(w)
  IN  IF ~r.res.ok THEN r
      ELSE LET r2 == f_read(r.w, r.res.val)
           IN  IF r2.res.ok THEN Step(r2.w, Ok(Bytes(r2.res.val))) ELSE r2

\* skip_string seeking from the start of the file instead of from the cursor
skip_string_absolute(w) ==
  LET r == read_varint(w)
  IN  IF ~r.res.ok THEN r
      ELSE LET r2 == f_seek(r.w, r.res.val, 0)
           IN  IF r2.res.ok THEN Step(r2.w, Ok(None)) ELSE r2

skip_string(w) ==
  LET r == read_varint(w)
  IN  IF ~r.res.ok THEN r
      ELSE LET r2 == f_seek(r.w, r.res.val, 1)
           IN  IF r2.res.ok THEN Step(r2.w, Ok(None)) ELSE r2

\* self.file.write(bytes(n)): bytes(n) is n zero bytes
write_byte(w, n) ==
  IF n < 0 THEN Step(w, Err("ValueError"))
  ELSE WritePacked(w, Ok(Zeros(n)))

read_byte(w) ==
  LET r == f_read(w, 1)
  IN  IF ~r.res.ok THEN r ELSE Step(r.w, ord(Bytes(r.res.val)))

get_byte(w, position) ==
  LET r == map_getint(w, position)
  IN  IF ~r.res.ok THEN r ELSE Step(r.w, ord(r.res.val))

write_sbyte(w, n) == WritePacked(w, pack_sbyte(n))

write_int(w, n) == WritePacked(w, pack_int(n))

write_uint(w, n) == WritePacked(w, pack_uint(n))

write_ushort(w, n) == WritePacked(w, pack_ushort(n))

write_ulong(w, n) == WritePacked(w, pack_ulong(n))

write_float(w, n) == WritePacked(w, pack_float(n))

read_sbyte(w) ==
  LET r == f_read(w, 1)
  IN  IF ~r.res.ok THEN r ELSE Step(r.w, unpack_sbyte(r.res.val))

\* the truncation error carries the position, the expected and the actual
\* number of bytes that its message names
\* read_int without the check of the number of bytes read
read_int_unchecked(w) ==
  LET r == f_read(w, _INT_SIZE)
  IN  IF ~r.res.ok THEN r ELSE Step(r.w, unpack_int(r.res.val))

read_int(w) ==
  LET r == f_read(w, _INT_SIZE)
  IN  IF ~r.res.ok THEN r
      ELSE IF Len(r.res.val) < _INT_SIZE
      THEN Step(r.w, [ok |-> FALSE, err |-> "IOError",
                      position |-> r.w.h.pos, expected |-> _INT_SIZE,
                      got |-> Len(r.res.val)])
      ELSE Step(r.w, unpack_int(r.res.val))

read_uint(w) ==
  LET r == f_read(w, _INT_SIZE)
  IN  IF ~r.res.ok THEN r ELSE Step(r.w, unpack_uint(r.res.val))

read_ulong(w) ==
  LET r == f_read(w, _ULONG_SIZE)
  IN  IF ~r.res.ok THEN r ELSE Step(r.w, unpack_ulong(r.res.val))

read_float(w) ==
  LET r == f_read(w, _FLOAT_SIZE)
  IN  IF ~r.res.ok THEN r ELSE Step(r.w, unpack_float(r.res.val))

get_sbyte(w, position) ==
  LET r == map_getslice(w, position, position + 1)
  IN  IF ~r.res.ok THEN r ELSE Step(r.w, unpack_sbyte(r.res.val))

get_int(w, position) ==
  LET r == map_getslice(w, position, position + _INT_SIZE)
  IN  IF ~r.res.ok THEN r ELSE Step(r.w, unpack_int(r.res.val))

get_uint(w, position) ==
  LET r == map_getslice(w, position, position + _INT_SIZE)
  IN  IF ~r.res.ok THEN r ELSE Step(r.w, unpack_uint(r.res.val))

get_ushort(w, position) ==
  LET r == map_getslice(w, position, position + _USHORT_SIZE)
  IN  IF ~r.res.ok THEN r ELSE Step(r.w, unpack_ushort(r.res.val))

get_ulong(w, position) ==
  LET r == map_getslice(w, position, position + _ULONG_SIZE)
  IN  IF ~r.res.ok THEN r ELSE Step(r.w, unpack_ulong(r.res.val))

get_float(w, position) ==
  LET r == map_getslice(w, position, position + _FLOAT_SIZE)
  IN  IF ~r.res.ok THEN r ELSE Step(r.w, unpack_float(r.res.val))

\* ------------------------------------------------------------------------
\* Arrays.  An array.array is [typecode, items]; the typecodes modelled are
\* "b", "H" and "L".  _SIZEMAP holds calcsize(typecode), the NATIVE size,
\* which for "L" is w.longsize (4 or 8 by platform); Struct("!" + ...) packs
\* and unpacks the STANDARD size, 4.
\* ------------------------------------------------------------------------
_SIZEMAP(w, typecode) ==
  CASE typecode = "b" -> 1 [] typecode = "H" -> 2 [] OTHER -> w.longsize

StdSize(typecode) ==
  CASE typecode = "b" -> 1 [] typecode = "H" -> 2 [] OTHER -> 4

PackItem(typecode, v) ==
  CASE typecode = "b" -> pack_sbyte(v)
    [] typecode = "H" -> pack_ushort(v)
    [] OTHER -> pack_ulong(v)

UnpackItem(typecode, data) ==
  CASE typecode = "b" -> unpack_sbyte(data)
    [] typecode = "H" -> unpack_ushort(data)
    [] OTHER -> unpack_ulong(data)

RECURSIVE PackItems(_, _)
PackItems(typecode, items) ==
  IF items = <<>> THEN Ok(<<>>)
  ELSE LET p == PackItem(typecode, Head(items))
           q == PackItems(typecode, Tail(items))
       IN  IF ~p.ok THEN p ELSE IF ~q.ok THEN q ELSE Ok(p.val \o q.val)

\* Struct("!" + typecode * length).unpack(data)
UnpackItems(typecode, length, data) ==
  LET n == StdSize(typecode)
  IN  IF Len(data) # n * length THEN Err("struct.error")
      ELSE Ok([k \in 1..length |->
                 UnpackItem(typecode, SubSeq(data, (k - 1) * n + 1, k * n)).val])

write_array(w, arry) == WritePacked(w, PackItems(arry.typecode, arry.items))

read_array(w, typecode, length) ==
  LET r == f_read(w, _SIZEMAP(w, typecode) * length)
  IN  IF ~r.res.ok THEN r
      ELSE Step(r.w, UnpackItems(typecode, length, r.res.val))

get_array(w, position, typecode, length) ==
  LET r == map_getslice(w, position,
                        position + _SIZEMAP(w, typecode) * length)
  IN  IF ~r.res.ok THEN r
      ELSE Step(r.w, UnpackItems(typecode, length, r.res.val))


\* ------------------------------------------------------------------------
\* State
\* ------------------------------------------------------------------------
VARIABLES
  file,       \* the bytes of the file on disk
  h,          \* the open file object the instance wraps
  sf,         \* the StructFile instance (id 0, map "none": none built yet)
  hookCalls,  \* the ids of the instances the onclose hook was called with
  last,       \* the last call: <<op, arg, res>>
  e2e         \* the end-to-end scenario: [phase, written, readback]

vars == <<file, h, sf, hookCalls, last, e2e>>

\* calcsize("L") is 4 or 8 by platform
LongSizes == {4, 8}

WorldOn(ls) ==
  [file |-> file, h |-> h, sf |-> sf, hook |-> hookCalls, longsize |-> ls]

World == WorldOn(8)

\* the kinds of file object a StructFile is built around: disk files opened
\* "rb", "r+b" and "wb" without buffering (a write reaches the file, and a
\* mapping of it, at once), an object that only has read/write/seek/tell,
\* and a read-only stream with a mode but no file descriptor
DiskFile(mode) ==
  [mode |-> mode, hasClose |-> TRUE, hasFlush |-> TRUE, hasFileno |-> TRUE]

BareObject ==
  [mode |-> "none", hasClose |-> FALSE, hasFlush |-> FALSE,
   hasFileno |-> FALSE]

StreamNoFd ==
  [mode |-> "r", hasClose |-> TRUE, hasFlush |-> TRUE, hasFileno |-> FALSE]

HandleKinds ==
  {DiskFile("rb"), DiskFile("r+b"), DiskFile("wb"), BareObject, StreamNoFd}

\* open(path, mode): "wb" truncates the file
OpenHandle(w, kind) ==
  [w EXCEPT !.file = IF kind.mode = "wb" THEN <<>> ELSE @,
            !.h = [mode |-> kind.mode, hasClose |-> kind.hasClose,
                   hasFlush |-> kind.hasFlush, hasFileno |-> kind.hasFileno,
                   pos |-> 0, closed |-> FALSE]]

NoHandle ==
  [mode |-> "none", hasClose |-> FALSE, hasFlush |-> FALSE,
   hasFileno |-> FALSE, pos |-> 0, closed |-> FALSE]

\* the files found on disk at the start
InitFiles == {<<>>, <<255>>, <<0, 0, 0, 255>>}

\* the values the calls are made with
SByteVals == {-1}

UShortVals == {255}

IntVals == {255, -256}

UIntVals == {U32(0, 255)}

ULongVals == {U32(65535, 65280)}

FloatVals == {DblZero(0), Dbl(0, -126, 8323072, 1)}

StringVals == {Bytes(<<>>), Bytes(<<1>>), Str(<<1>>), Str(<<233>>)}

VarintVals == {1, 255}

ByteVals == {0, 1, 2}

ArrayVals ==
  {[typecode |-> "b", items |-> <<-1>>],
   [typecode |-> "H", items |-> <<255>>],
   [typecode |-> "L", items |-> <<U32(0, 255)>>]}

\* the (typecode, length) pairs arrays are read with
ArrayShapes == {<<"b", 2>>, <<"H", 1>>, <<"L", 1>>}

Positions == 0..MaxLen

\* TLC's integers hold 31 bits: a call that decodes a varint is explored
\* when the varint at the cursor has at most VarintMaxBytes bytes
VarintMaxBytes == 31 \div 7

RECURSIVE ContinuationRun(_, _)
ContinuationRun(data, pos) ==
  IF pos >= Len(data) \/ data[pos + 1] < 128 THEN 0
  ELSE 1 + ContinuationRun(data, pos + 1)

VarintFits == ContinuationRun(file, h.pos) < VarintMaxBytes

\* The last call is kept as the tuple <<op, arg, res>>: the method's name,
\* the argument the properties refer to (None when they refer to none) and
\* the outcome.
NoCall == <<"none", None, Ok(None)>>

Op(call) == call[1]

Arg(call) == call[2]

Res(call) == call[3]

NoE2E == [phase |-> "off", written |-> <<>>, readback |-> <<>>]

Init ==
  /\ file \in InitFiles
  /\ h = NoHandle
  /\ sf = NoInstance
  /\ hookCalls = <<>>
  /\ last = NoCall
  /\ e2e = NoE2E

\* the step r of a call becomes the next state
Commit(r, op, arg) ==
  /\ file' = r.w.file
  /\ h' = r.w.h
  /\ sf' = r.w.sf
  /\ hookCalls' = r.w.hook
  /\ last' = <<op, arg, r.res>>

\* a call of a method of the instance, open or closed
Call(r, op, arg) ==
  /\ sf.map # "none"
  /\ Commit(r, op, arg)
  /\ UNCHANGED e2e

\* a call that writes: the file stays within MaxLen
CallW(r, op, arg) ==
  /\ h.pos <= MaxLen
  /\ Len(r.w.file) <= MaxLen
  /\ Call(r, op, arg)

\* ------------------------------------------------------------------------
\* Actions: one per method of StructFile
\* ------------------------------------------------------------------------
\* mmap.mmap is reached: its outcome is an input of the construction
MmapCalled(kind, mapped) ==
  mapped /\ kind.mode \in {"rb", "r+b", "r"} /\ kind.hasFileno /\ Len(file) > 0

\* StructFile(open(path, mode), onclose=..., mapped=...), once per behaviour
NewStructFile(kinds, hooks) ==
  \E kind \in kinds, onclose \in hooks, mapped \in BOOLEAN :
    \E mmapres \in IF MmapCalled(kind, mapped) THEN {"ok", "OSError"}
                   ELSE {"ok"} :
      LET opened == OpenHandle(World, kind)
      IN  /\ sf.id = 0
          /\ Commit(StructFile_init(opened, onclose, mapped, mmapres),
                    "__init__",
                    [mode |-> kind.mode, hasFileno |-> kind.hasFileno,
                     size |-> Len(opened.file), mapped |-> mapped,
                     mmapres |-> mmapres])
          /\ UNCHANGED e2e

Flush == Call(flush(World), "flush", None)

Close == Call(close(World), "close", None)

Seek == \E p \in Positions : Call(f_seek(World, p, 0), "seek", None)

Tell == Call(f_tell(World), "tell", None)

Read ==
  \E n \in {1, 2} :
    LET r == f_read(World, n)
    IN  Call(IF r.res.ok THEN Step(r.w, Ok(Bytes(r.res.val))) ELSE r,
             "read", None)

WriteString ==
  \E s \in StringVals : CallW(write_string(World, s), "write_string", s)

WriteString2 ==
  \E s \in StringVals : CallW(write_string2(World, s), "write_string2", s)

ReadString == VarintFits /\ Call(read_string(World), "read_string", None)

ReadString2 == Call(read_string2(World), "read_string2", None)

SkipString == VarintFits /\ Call(skip_string(World), "skip_string", None)

WriteVarint ==
  \E i \in VarintVals : CallW(write_varint(World, i), "write_varint", i)

ReadVarint == VarintFits /\ Call(read_varint(World), "read_varint", None)

WriteByte == \E n \in ByteVals : CallW(write_byte(World, n), "write_byte", n)

ReadByte == Call(read_byte(World), "read_byte", None)

GetByte == \E p \in Positions : Call(get_byte(World, p), "get_byte", None)

WriteSbyte ==
  \E n \in SByteVals : CallW(write_sbyte(World, n), "write_sbyte", n)

WriteInt == \E n \in IntVals : CallW(write_int(World, n), "write_int", n)

WriteUint == \E n \in UIntVals : CallW(write_uint(World, n), "write_uint", n)

WriteUshort ==
  \E n \in UShortVals : CallW(write_ushort(World, n), "write_ushort", n)

WriteUlong ==
  \E n \in ULongVals : CallW(write_ulong(World, n), "write_ulong", n)

WriteFloat ==
  \E n \in FloatVals : CallW(write_float(World, n), "write_float", n)

WriteArray ==
  \E a \in ArrayVals : CallW(write_array(World, a), "write_array", <<a.typecode, a.items>>)

ReadSbyte == Call(read_sbyte(World), "read_sbyte", None)

ReadInt == Call(read_int(World), "read_int", None)

ReadUint == Call(read_uint(World), "read_uint", None)

ReadUshort == Call(read_ushort(World), "read_ushort", None)

ReadUlong == Call(read_ulong(World), "read_ulong", None)

ReadFloat == Call(read_float(World), "read_float", None)

ReadArray ==
  \E a \in ArrayShapes, ls \in LongSizes :
    Call(read_array(WorldOn(ls), a[1], a[2]), "read_array", a[1])

GetSbyte == \E p \in Positions : Call(get_sbyte(World, p), "get_sbyte", None)

GetInt == \E p \in Positions : Call(get_int(World, p), "get_int", None)

GetUint == \E p \in Positions : Call(get_uint(World, p), "get_uint", None)

GetUshort == \E p \in Positions : Call(get_ushort(World, p), "get_ushort", None)

GetUlong == \E p \in Positions : Call(get_ulong(World, p), "get_ulong", None)

GetFloat == \E p \in Positions : Call(get_float(World, p), "get_float", None)

GetArray ==
  \E p \in Positions, a \in ArrayShapes, ls \in LongSizes :
    Call(get_array(WorldOn(ls), p, a[1], a[2]), "get_array", a[1])

\* ------------------------------------------------------------------------
\* Specifications
\* ------------------------------------------------------------------------
\* the fixed-width values and arrays, sequential and through the map
FixedKinds == {DiskFile("rb"), DiskFile("r+b"), BareObject}

NextFixed ==
  \/ NewStructFile(FixedKinds, {FALSE})
  \/ Seek
  \/ WriteSbyte \/ WriteInt \/ WriteUint \/ WriteUshort \/ WriteUlong
  \/ WriteFloat \/ WriteArray
  \/ ReadSbyte \/ ReadInt \/ ReadUint \/ ReadUshort \/ ReadUlong
  \/ ReadFloat \/ ReadArray
  \/ GetByte \/ GetSbyte \/ GetInt \/ GetUint \/ GetUshort \/ GetUlong
  \/ GetFloat \/ GetArray

SpecFixed == Init /\ [][NextFixed]_vars

\* strings, varints and single bytes
StrKinds == {DiskFile("r+b"), BareObject}

NextStr ==
  \/ NewStructFile(StrKinds, {FALSE})
  \/ Seek
  \/ WriteString \/ WriteString2 \/ ReadString \/ ReadString2 \/ SkipString
  \/ WriteVarint \/ ReadVarint \/ WriteByte \/ ReadByte

SpecStr == Init /\ [][NextStr]_vars

\* construction, flush and close, with calls before and after the close
NextLife ==
  \/ NewStructFile(HandleKinds, BOOLEAN)
  \/ Read \/ Tell \/ Seek \/ Flush \/ Close
  \/ WriteInt \/ ReadInt \/ GetInt \/ WriteUshort

SpecLife == Init /\ [][NextLife]_vars

\* ------------------------------------------------------------------------
\* The end-to-end scenario: a writer instance on a file opened "wb" writes
\* typed values from position 0 and is closed; a reader instance on the
\* same file opened "rb" reads them back in the same order.
\* ------------------------------------------------------------------------
TV(t, v) == <<t, v>>

TypeOf(tv) == tv[1]

ValueOf(tv) == tv[2]

\* 42, 7, b"abc", "abc", 3.5, 0.1, and one value of each other width
E2EVals ==
  <<TV("int", 42), TV("ushort", 7),
   TV("string", Bytes(<<97, 98, 99>>)), TV("string", Str(<<97, 98, 99>>)),
   TV("float", Dbl(0, 1, 6291456, 0)),
   TV("float", Dbl(0, -4, 5033164, 429496730)),
   TV("sbyte", -1), TV("uint", U32(1, 0)), TV("ulong", U32(0, 1))>>

WriteTyped(w, tv) ==
  LET t == TypeOf(tv)
      v == ValueOf(tv)
  IN  CASE t = "int" -> write_int(w, v)
        [] t = "ushort" -> write_ushort(w, v)
        [] t = "string" -> write_string(w, v)
        [] t = "float" -> write_float(w, v)
        [] t = "sbyte" -> write_sbyte(w, v)
        [] t = "uint" -> write_uint(w, v)
        [] OTHER -> write_ulong(w, v)

ReadTyped(w, t) ==
  CASE t = "int" -> read_int(w)
    [] t = "ushort" -> read_ushort(w)
    [] t = "string" -> read_string(w)
    [] t = "float" -> read_float(w)
    [] t = "sbyte" -> read_sbyte(w)
    [] t = "uint" -> read_uint(w)
    [] OTHER -> read_ulong(w)

InitE2E ==
  /\ file = <<>>
  /\ h = NoHandle
  /\ sf = NoInstance
  /\ hookCalls = <<>>
  /\ last = NoCall
  /\ e2e = [phase |-> "start", written |-> <<>>, readback |-> <<>>]

E2EOpenWriter ==
  /\ e2e.phase = "start"
  /\ \E mapped \in BOOLEAN :
       Commit(StructFile_init(OpenHandle(World, DiskFile("wb")), FALSE,
                              mapped, "ok"),
              "__init__", None)
  /\ e2e' = [e2e EXCEPT !.phase = "writing"]

\* a write that raises ends the scenario
E2EWrite ==
  /\ e2e.phase = "writing"
  /\ Len(e2e.written) < MaxWrites
  /\ \E k \in DOMAIN E2EVals :
       LET tv == E2EVals[k]
           r == WriteTyped(World, tv)
       IN  /\ Commit(r, "write", tv)
           /\ e2e' = IF r.res.ok
                     THEN [e2e EXCEPT !.written = Append(@, tv)]
                     ELSE [e2e EXCEPT !.phase = "failed"]

E2ECloseWriter ==
  /\ e2e.phase = "writing"
  /\ e2e.written # <<>>
  /\ Commit(close(World), "close", None)
  /\ e2e' = [e2e EXCEPT !.phase = "closed"]

E2EReopen ==
  /\ e2e.phase = "closed"
  /\ \E mapped \in BOOLEAN :
       Commit(StructFile_init(OpenHandle(World, DiskFile("rb")), FALSE,
                              mapped, "ok"),
              "__init__", None)
  /\ e2e' = [e2e EXCEPT !.phase = "reading"]

\* the next read, of the type written at that place; readback keeps the
\* type, the outcome and the cursor before and after the read
E2ERead ==
  /\ e2e.phase = "reading"
  /\ LET k == Len(e2e.readback) + 1
         t == TypeOf(e2e.written[k])
         r == ReadTyped(World, t)
         got == <<t, r.res, h.pos, r.w.h.pos>>
     IN  /\ Commit(r, "read", t)
         /\ e2e' = [e2e EXCEPT !.readback = Append(@, got),
                               !.phase = IF k = Len(e2e.written) THEN "done"
                                         ELSE @]

NextE2E ==
  \/ E2EOpenWriter \/ E2EWrite \/ E2ECloseWriter \/ E2EReopen \/ E2ERead

SpecE2E == InitE2E /\ [][NextE2E]_vars

\* ------------------------------------------------------------------------
\* Properties
\* ------------------------------------------------------------------------
\* the instance exists and close() has not run
IsOpen == sf.map \in {"real", "fake"}

\* the world after self.seek(p)
SeekTo(w, p) == f_seek(w, p, 0).w

\* get_X(p) and seek(p); read_X() have the same outcome, for every type X
\* whose bytes at p end within the first limit bytes of the file
EquivAt(p, limit) ==
  /\ p + 1 <= limit =>
       get_sbyte(World, p).res = read_sbyte(SeekTo(World, p)).res
  /\ p + 2 <= limit =>
       get_ushort(World, p).res = read_ushort(SeekTo(World, p)).res
  /\ p + 4 <= limit =>
       /\ get_int(World, p).res = read_int(SeekTo(World, p)).res
       /\ get_uint(World, p).res = read_uint(SeekTo(World, p)).res
       /\ get_ulong(World, p).res = read_ulong(SeekTo(World, p)).res
       /\ get_float(World, p).res = read_float(SeekTo(World, p)).res
  /\ \A a \in ArrayShapes, ls \in LongSizes :
       p + _SIZEMAP(WorldOn(ls), a[1]) * a[2] <= limit =>
         get_array(WorldOn(ls), p, a[1], a[2]).res
           = read_array(SeekTo(WorldOn(ls), p), a[1], a[2]).res

GetOps ==
  {"get_byte", "get_sbyte", "get_int", "get_uint", "get_ushort", "get_ulong",
   "get_float", "get_array"}

\* C1 as stated: on an open instance, with either mapping, get_X(offset)
\* returns what seek(offset) followed by read_X() returns, for every offset
\* that has at least size(X) bytes of the file after it.
C1_AsStated == IsOpen => \A p \in Positions : EquivAt(p, Len(file))

\* C1: on an open instance, get_X(offset) returns what seek(offset) followed
\* by read_X() returns, for every offset that has at least size(X) bytes of
\* the file after it and, when the mapping is the real one, these bytes lie
\* within the file size captured at construction.
C1_MapEqualsSequential ==
  IsOpen =>
    \A p \in Positions :
      EquivAt(p, IF sf.map = "real" THEN Min(sf.size, Len(file))
                 ELSE Len(file))

\* a get_* through the real mapping has returned a value from a file that
\* has grown past the size captured at construction
C1_Witness ==
  /\ sf.map = "real"
  /\ Op(last) \in GetOps
  /\ Res(last).ok
  /\ Len(file) > sf.size

\* C2: no get_* call on an open instance changes the sequential cursor:
\* tell() after the call equals tell() before it, with either mapping.
C2_GetKeepsCursor ==
  [][(IsOpen /\ Op(last') \in GetOps) => h'.pos = h.pos]_vars

\* the bytes between the cursor and the end of the file
Remaining == IF h.pos >= Len(file) THEN 0 ELSE Len(file) - h.pos

\* C6: read_int on an open, readable handle with fewer than 4 bytes left
\* fails with the truncation error naming 4 expected bytes and the number
\* obtained, and returns no integer; with at least 4 bytes left it returns
\* the signed integer whose big-endian encoding is those 4 bytes and moves
\* the cursor by 4.
C6_ReadIntTruncation ==
  [][(IsOpen /\ ~h.closed /\ Readable(h) /\ Op(last') = "read_int") =>
       IF Remaining < 4
       THEN /\ ~Res(last').ok
            /\ Res(last').err = "IOError"
            /\ Res(last').expected = 4
            /\ Res(last').got = Remaining
       ELSE /\ Res(last').ok
            /\ Res(last').val \in -2147483647 - 1 .. 2147483647
            /\ pack_int(Res(last').val).val
                 = SubSeq(file, h.pos + 1, h.pos + 4)
            /\ h'.pos = h.pos + 4]_vars

\* a read_int has failed on three remaining bytes
C6_Witness ==
  /\ Op(last) = "read_int"
  /\ ~Res(last).ok
  /\ Res(last).err = "IOError"
  /\ Res(last).got = 3


\* the handle takes both reads and writes
ReadWrite == IsOpen /\ ~h.closed /\ Readable(h) /\ Writable(h)

\* C3: for every n in 0..255, write_byte(n) adds exactly one byte (the
\* cursor advances by 1) and read_byte() at that position returns n.
C3_WriteByteRoundTrip ==
  [][(ReadWrite /\ Op(last') = "write_byte") =>
       /\ Res(last').ok
       /\ h'.pos = h.pos + 1
       /\ read_byte(SeekTo(World', h.pos)).res = Ok(Arg(last'))]_vars

\* the read that matches a write of a string
ReadOf(op, w) == IF op = "write_string" THEN read_string(w) ELSE read_string2(w)

\* C7: for every string s, write_string(s) then read_string() at the same
\* position returns s, and so do write_string2(s) and read_string2(); the
\* read leaves the cursor at the end of the bytes the write produced.
C7_StringRoundTrip ==
  [][(ReadWrite /\ Op(last') \in {"write_string", "write_string2"}) =>
       /\ Res(last').ok
       /\ LET r == ReadOf(Op(last'), SeekTo(World', h.pos))
          IN  /\ r.res = Ok(Arg(last'))
              /\ r.w.h.pos = h'.pos]_vars

\* a variant-1 string with a payload of l bytes starts at pos: the varint
\* of l, then l bytes
StringAt(data, pos, l) ==
  LET prefix == varint(l)
  IN  /\ pos + Len(prefix) + l <= Len(data)
      /\ Slice(data, pos, pos + Len(prefix)) = prefix

\* C10: started at the first byte of a variant-1 string, skip_string leaves
\* the cursor where read_string would leave it, at start + length-prefix
\* bytes + payload length, returns no payload and leaves the file as it is.
C10_SkipLikeRead ==
  [][(IsOpen /\ ~h.closed /\ Readable(h) /\ Op(last') = "skip_string") =>
       \A l \in 0..MaxLen :
         StringAt(file, h.pos, l) =>
           /\ Res(last') = Ok(None)
           /\ h'.pos = h.pos + Len(varint(l)) + l
           /\ h'.pos = read_string(World).w.h.pos
           /\ file' = file]_vars

\* skip_string has just passed a string with a payload: the cursor is right
\* after the l >= 1 bytes that follow a length prefix l, away from offset 0
C10_Witness ==
  /\ Op(last) = "skip_string"
  /\ Res(last).ok
  /\ \E l \in 1..MaxLen :
       /\ h.pos - l - 1 >= 1
       /\ h.pos <= Len(file)
       /\ file[h.pos - l] = l


\* C4: close on an open instance releases the map, runs the registered hook
\* once with the instance (not at all without a hook), closes the handle
\* when it has a close capability and sets the closed flag; from a closed
\* instance every step leaves the flag set and the hook calls as they are,
\* so that a closed instance has had its hook run exactly once.
C4_CloseTerminal ==
  [][/\ (IsOpen /\ Op(last') = "close") =>
          /\ Res(last').ok
          /\ sf'.map = "deleted"
          /\ sf'.is_closed
          /\ hookCalls' = IF sf.onclose THEN Append(hookCalls, sf.id)
                          ELSE hookCalls
          /\ h.hasClose => h'.closed
     /\ sf.is_closed =>
          /\ sf'.is_closed
          /\ sf'.map = "deleted"
          /\ hookCalls' = hookCalls
     /\ sf'.is_closed =>
          hookCalls' = IF sf'.onclose THEN <<sf'.id>> ELSE <<>>]_vars

\* a closed instance with a hook, on which close has been called again
C4_Witness ==
  /\ sf.is_closed
  /\ sf.onclose
  /\ Op(last) = "close"
  /\ ~Res(last).ok
  /\ hookCalls = <<sf.id>>

\* C5: construction never fails and leaves one mapped view; the view is the
\* real mapping exactly when mapping was requested, the handle is in a read
\* mode, the file size is non-zero and the mapping call succeeds, and the
\* synthetic mapping in every other case.
C5_ConstructionNeverFails ==
  Op(last) = "__init__" =>
    /\ Res(last).ok
    /\ sf.map \in {"real", "fake"}
    /\ sf.map = "real" <=>
         /\ Arg(last).mapped
         /\ Arg(last).mode \in {"rb", "r+b", "r"}
         /\ Arg(last).size > 0
         /\ Arg(last).mmapres = "ok"

\* the operations C8 is about: all but the construction and close itself
PostCloseOps ==
  {"flush", "seek", "tell", "read", "write_int", "read_int", "get_int",
   "write_ushort"}

\* C8: any operation on an instance after close fails and returns no data,
\* whatever the handle and the mapping were.
C8_FailsAfterClose ==
  [][(sf.is_closed /\ Op(last') \in PostCloseOps) => ~Res(last').ok]_vars


\* the encoded size of each fixed-width type
EncodedSize ==
  [sbyte |-> 1, ushort |-> 2, int |-> 4, uint |-> 4, ulong |-> 4, float |-> 4]

\* C9: every sequence of typed values written from position 0 is written
\* without failure and, after close and reopen, the matching reads in the
\* same order return exactly the written values; each fixed-width read moves
\* the cursor by its encoded size and the last read ends at the end of the
\* file.
C9_EndToEnd ==
  /\ e2e.phase # "failed"
  /\ e2e.phase = "done" =>
       /\ \A k \in DOMAIN e2e.written :
            LET t == TypeOf(e2e.written[k])
                got == e2e.readback[k]
            IN  /\ got[2] = Ok(ValueOf(e2e.written[k]))
                /\ t \in DOMAIN EncodedSize =>
                     got[4] = got[3] + EncodedSize[t]
       /\ h.pos = Len(file)

====
